---- MODULE Spec2Model ----
(***************************************************************************)
(* A model of slyguy/util.py: the CENC/PSSH init-data codec (cenc_init,    *)
(* parse_cenc_init, cenc_version1to0) and the thread-pool task runner      *)
(* async_tasks.                                                            *)
(*                                                                         *)
(* Bytes are the integers 0..255, a bytearray is a sequence of bytes, and  *)
(* a base64 string is a sequence of alphabet positions 0..63 with Pad (64) *)
(* standing for '='.  Python values None and the empty bytearray are both  *)
(* falsy and the code only ever tests them with `or` / `not`, so an        *)
(* omitted argument is written as the empty sequence.                      *)
(***************************************************************************)
EXTENDS Integers, Sequences, FiniteSets, TLC

VARIABLES
    pc,         \* codec driver: which call was made last
    args,       \* the arguments of the cenc_init call: [data, uuid, kids]
    box,        \* the string cenc_init returned
    x,          \* the string handed to parse_cenc_init / cenc_version1to0
    parsed,     \* outcome of parse_cenc_init(x)
    down,       \* outcome of cenc_version1to0(x)
    down2,      \* outcome of cenc_version1to0 applied to the previous outcome
    how,        \* how x was derived from box: [kind, n]
    tasks,      \* async_tasks argument: what each task does when called
    workers,    \* async_tasks argument
    raise_on_error, \* async_tasks argument
    task_queue, \* queue.Queue of [task, index] (the index stands for the task)
    resp_queue, \* queue.Queue of [value, index]
    threads,    \* number of worker threads started so far
    wpc,        \* each worker thread's position
    wtask,      \* the index each worker holds after get_nowait
    mpc,        \* the position of the thread that called async_tasks
    mi,         \* the collecting loop's counter i
    result,     \* the collecting loop's variable `result`
    results,    \* the list `results`
    exception,  \* the variable `exception`
    joined,     \* number of threads already joined
    outcome,    \* what async_tasks returned or raised
    runs        \* how many times each task has been called

codecVars == <<pc, args, box, x, parsed, down, down2, how>>
asyncVars == <<tasks, workers, raise_on_error, task_queue, resp_queue, threads,
               wpc, wtask, mpc, mi, result, results, exception, joined, outcome,
               runs>>
vars == <<pc, args, box, x, parsed, down, down2, how,
          tasks, workers, raise_on_error, task_queue, resp_queue, threads,
          wpc, wtask, mpc, mi, result, results, exception, joined, outcome,
          runs>>

----------------------------------------------------------------------------
(* Bounds of the model *)

MaxData == 2        \* longest payload
MaxKids == 2        \* longest key-ID list
MaxTasks == 2       \* longest task list
MaxWorkers == 2     \* largest `workers` argument

----------------------------------------------------------------------------
(* Python and library primitives *)

Min(a, b) == IF a < b THEN a ELSE b
Max(a, b) == IF a > b THEN a ELSE b

\* bytearray(n): n zero bytes
bytearray(n) == [i \in 1..n |-> 0]

\* buf[lo:hi] for 0 <= lo <= hi: the indices are clipped to the buffer
Slice(buf, lo, hi) == SubSeq(buf, Min(lo, Len(buf)) + 1, Min(hi, Len(buf)))

\* buf[lo:hi] = val on a bytearray: the clipped slice is replaced by val,
\* whatever val's length (the buffer grows or shrinks)
SliceAssign(buf, lo, hi, val) ==
    LET l == Min(lo, Len(buf))
        h == Max(Min(hi, Len(buf)), l)
    IN  SubSeq(buf, 1, l) \o val \o SubSeq(buf, h + 1, Len(buf))

\* struct.pack(">I", n), 0 <= n < 2^32
pack_be32(n) == << (n \div 16777216) % 256, (n \div 65536) % 256,
                   (n \div 256) % 256, n % 256 >>

\* struct.pack("<I", n), 0 <= n < 2^32
pack_le32(n) == << n % 256, (n \div 256) % 256,
                   (n \div 65536) % 256, (n \div 16777216) % 256 >>

\* struct.unpack(">I", b): struct.error unless b holds exactly 4 bytes
unpack_be32(b) ==
    IF Len(b) # 4 THEN [ok |-> FALSE, val |-> 0]
    ELSE [ok |-> TRUE,
          val |-> b[1] * 16777216 + b[2] * 65536 + b[3] * 256 + b[4]]

\* struct.unpack("<I", b)
unpack_le32(b) ==
    IF Len(b) # 4 THEN [ok |-> FALSE, val |-> 0]
    ELSE [ok |-> TRUE,
          val |-> b[4] * 16777216 + b[3] * 65536 + b[2] * 256 + b[1]]

Pad == 64

\* base64.b64encode: 3 bytes -> 4 characters, '=' padding, no line breaks
b64encode(b) ==
    LET n == Len(b)
        byte(k) == IF k <= n THEN b[k] ELSE 0
        char(j) ==
            LET g  == (j - 1) \div 4
                r  == (j - 1) % 4
                b0 == byte(3 * g + 1)
                b1 == byte(3 * g + 2)
                b2 == byte(3 * g + 3)
            IN  CASE r = 0 -> b0 \div 4
                  [] r = 1 -> (b0 % 4) * 16 + (b1 \div 16)
                  [] r = 2 -> IF 3 * g + 2 > n THEN Pad
                              ELSE (b1 % 16) * 4 + (b2 \div 64)
                  [] r = 3 -> IF 3 * g + 3 > n THEN Pad ELSE b2 % 64
    IN  [j \in 1..(4 * ((n + 2) \div 3)) |-> char(j)]

\* binascii.a2b_base64 (non-strict) on a string of alphabet characters and
\* '=': the character loop's result in closed form.  The loop counts the
\* data characters (quad_pos is that count modulo 4) and the '=' in a row;
\* a '=' that completes the padding of a group of 2 or 3 data characters
\* ends the parse, any other '=' is skipped.
PadRun(s, i) == i - Max(0, CHOOSE j \in 0..i :
                            /\ j = 0 \/ s[j] # Pad
                            /\ \A k \in (j + 1)..i : s[k] = Pad)
DataBefore(s, i) == Cardinality({j \in 1..(i - 1) : s[j] # Pad})
EndsParse(s, i) ==
    /\ s[i] = Pad
    /\ DataBefore(s, i) % 4 >= 2
    /\ (DataBefore(s, i) % 4) + PadRun(s, i) >= 4

a2b_base64(s) ==
    LET ends == {i \in 1..Len(s) : EndsParse(s, i)}
        stop == IF ends = {} THEN Len(s) + 1
                ELSE CHOOSE i \in ends : \A j \in ends : i <= j
        IsData(c) == c # Pad
        d    == SelectSeq(SubSeq(s, 1, stop - 1), IsData)
        n    == Len(d)
        nout == 3 * (n \div 4) + (IF n % 4 >= 2 THEN (n % 4) - 1 ELSE 0)
        byte(k) ==
            LET g == (k - 1) \div 3
                r == (k - 1) % 3
            IN  CASE r = 0 -> d[4 * g + 1] * 4 + (d[4 * g + 2] \div 16)
                  [] r = 1 -> (d[4 * g + 2] % 16) * 16 + (d[4 * g + 3] \div 4)
                  [] r = 2 -> (d[4 * g + 3] % 4) * 64 + d[4 * g + 4]
    IN  \* leftover characters of an incomplete group: binascii.Error
        [ok  |-> ends # {} \/ n % 4 = 0,
         val |-> [k \in 1..nout |-> byte(k)]]

\* base64.b64decode(s)
b64decode(s) == a2b_base64(s)

----------------------------------------------------------------------------
(* Constants imported from slyguy/constants.py *)

WIDEVINE_UUID == <<237, 239, 139, 169, 121, 214, 74, 206,
                   163, 200, 39, 220, 213, 29, 33, 237>>
WIDEVINE_PSSH == <<112, 115, 115, 104>>

----------------------------------------------------------------------------
(* cenc_init *)

\* `v or d`: d when v is None or empty
OrDefault(v, d) == IF v = <<>> THEN d ELSE v

\* length = len(data) + 32, plus 16 per kid and 4 for the count when kids
BoxLengthNoCount(data, kids) ==
    Len(data) + 32 + (IF kids # <<>> THEN Len(kids) * 16 ELSE 0)
BoxLength(data, kids) ==
    Len(data) + 32 + (IF kids # <<>> THEN Len(kids) * 16 + 4 ELSE 0)

\* the version written: struct.pack("<I", 1 if kids else 0)
VersionAlwaysOne(kids) == pack_le32(1)
VersionBigEndian(kids) == pack_be32(IF kids # <<>> THEN 1 ELSE 0)
VersionField(kids) == pack_le32(IF kids # <<>> THEN 1 ELSE 0)

\* for kid in kids: init_data[pos:pos+len(uuid)] = kid; pos += len(kid)
RECURSIVE WriteKids(_, _, _, _)
WriteKids(st, kids, k, uuid) ==
    IF k > Len(kids) THEN st
    ELSE WriteKids([buf |-> SliceAssign(st.buf, st.pos,
                                        st.pos + Len(uuid), kids[k]),
                    pos |-> st.pos + Len(kids[k])],
                   kids, k + 1, uuid)

\* the bytearray init_data as it stands at the return statement
cenc_init_data(data0, uuid0, kids) ==
    LET data   == OrDefault(data0, <<>>)
        uuid   == OrDefault(uuid0, WIDEVINE_UUID)
        length == BoxLength(data, kids)
        b0     == bytearray(length)
        \* length (4 bytes)
        r1     == pack_be32(length)
        b1     == SliceAssign(b0, 0, Len(r1), r1)
        p1     == Len(r1)
        \* pssh (4 bytes): the slice is len(r_uint32) wide
        b2     == SliceAssign(b1, p1, p1 + Len(r1), WIDEVINE_PSSH)
        p2     == p1 + Len(WIDEVINE_PSSH)
        \* version
        r3     == VersionField(kids)
        b3     == SliceAssign(b2, p2, p2 + Len(r3), r3)
        p3     == p2 + Len(r3)
        \* uuid
        b4     == SliceAssign(b3, p3, p3 + Len(uuid), uuid)
        p4     == p3 + Len(uuid)
        \* kid count and kids
        r5     == pack_be32(Len(kids))
        st5    == IF kids # <<>>
                  THEN WriteKids([buf |-> SliceAssign(b4, p4, p4 + Len(r5), r5),
                                  pos |-> p4 + Len(r5)], kids, 1, uuid)
                  ELSE [buf |-> b4, pos |-> p4]
        \* length of data
        r6     == pack_be32(Len(data))
        b6     == SliceAssign(st5.buf, st5.pos, st5.pos + Len(r6), r6)
        p6     == st5.pos + Len(r6)
    IN  \* data
        SliceAssign(b6, p6, p6 + Len(data), data)

cenc_init(data, uuid, kids) == b64encode(cenc_init_data(data, uuid, kids))

----------------------------------------------------------------------------
(* parse_cenc_init *)

\* A call's outcome: ok with the returned tuple, or the exception raised
ParseError(e) == [ok |-> FALSE, err |-> e, uuid |-> <<>>, version |-> 0,
                  data |-> <<>>, kids |-> <<>>]
ParseOk(uuid, version, data, kids) ==
    [ok |-> TRUE, err |-> "", uuid |-> uuid, version |-> version,
     data |-> data, kids |-> kids]

\* for i in range(num_kids): kids.append(init_data[pos:pos+16]); pos += 16
ReadKids(init_data, pos, num_kids) ==
    [i \in 1..num_kids |->
        Slice(init_data, pos + 16 * (i - 1), pos + 16 * i)]

\* the version field: struct.unpack("<I", init_data[8:12])
ReadVersionBigEndian(init_data) == unpack_be32(Slice(init_data, 8, 12))
ReadVersion(init_data) == unpack_le32(Slice(init_data, 8, 12))

parse_cenc_init(b64string) ==
    LET dec == b64decode(b64string)
        init_data == dec.val
        length  == unpack_be32(Slice(init_data, 0, 4))
        pssh    == unpack_be32(Slice(init_data, 4, 8))
        version == ReadVersion(init_data)
        uuid    == Slice(init_data, 12, 28)
        hasKids == version.val = 1
        num_kids == unpack_be32(Slice(init_data, 28, 32))
        kids    == IF hasKids THEN ReadKids(init_data, 32, num_kids.val)
                   ELSE <<>>
        pos     == IF hasKids THEN 32 + 16 * num_kids.val ELSE 28
        data_length == unpack_be32(Slice(init_data, pos, pos + 4))
        data    == Slice(init_data, pos + 4, pos + 4 + data_length.val)
    IN  IF ~dec.ok THEN ParseError("binascii.Error")
        ELSE IF ~length.ok \/ ~pssh.ok \/ ~version.ok
        THEN ParseError("struct.error")
        ELSE IF hasKids /\ ~num_kids.ok THEN ParseError("struct.error")
        ELSE IF ~data_length.ok THEN ParseError("struct.error")
        ELSE ParseOk(uuid, version.val, data, kids)

----------------------------------------------------------------------------
(* cenc_version1to0 *)

Raised(e) == [ok |-> FALSE, err |-> e, val |-> <<>>]
Returned(s) == [ok |-> TRUE, err |-> "", val |-> s]

\* the early-return test: version != 1 or not data or uuid != WIDEVINE_UUID
NoDataTestSkipped(p) == p.version # 1 \/ p.uuid # WIDEVINE_UUID
Inapplicable(p) == p.version # 1 \/ p.data = <<>> \/ p.uuid # WIDEVINE_UUID

\* the re-encoding: cenc_init(data), uuid and kids defaulted
ReencodeKeepingKids(p) == cenc_init(p.data, <<>>, p.kids)
Reencode(p) == cenc_init(p.data, <<>>, <<>>)

cenc_version1to0(cenc) ==
    LET p == parse_cenc_init(cenc)
    IN  IF ~p.ok THEN Raised(p.err)
        ELSE IF Inapplicable(p) THEN Returned(cenc)
        ELSE Returned(Reencode(p))

----------------------------------------------------------------------------
(* The codec's callers: the values the functions are called with *)

SeqsUpTo(S, n) == UNION {[1..k -> S] : k \in 0..n}

PayloadBytes == {0, 1, 2}
Payloads == SeqsUpTo(PayloadBytes, MaxData)

ZeroUuid == [i \in 1..16 |-> 0]
OtherUuid == [i \in 1..16 |-> i]
\* <<>> is the omitted argument (uuid=None)
Uuids == {<<>>, ZeroUuid, OtherUuid}

KeyIds == {[i \in 1..16 |-> 170], [i \in 1..16 |-> 16 + i]}
KidLists == SeqsUpTo(KeyIds, MaxKids)

\* Strings a caller may hand to parse_cenc_init / cenc_version1to0: the
\* encoder's output, or a box from another producer that differs from it:
\* cut short after n bytes, carrying another version number, declaring a
\* wrong length, carrying trailing bytes, or not valid base64.
Inputs(b) ==
    LET buf == b64decode(b).val
    IN  {[kind |-> "asis", n |-> 0, s |-> b]}
        \cup {[kind |-> "cut", n |-> n, s |-> b64encode(SubSeq(buf, 1, n))] :
                n \in 0..(Len(buf) - 1)}
        \cup {[kind |-> "version", n |-> v,
               s |-> b64encode(SliceAssign(buf, 8, 12, pack_le32(v)))] :
                v \in 0..2}
        \cup {[kind |-> "length", n |-> 0,
               s |-> b64encode(SliceAssign(buf, 0, 4, pack_be32(0)))]}
        \cup {[kind |-> "trailing", n |-> 1, s |-> b64encode(buf \o <<7>>)]}
        \cup {[kind |-> "base64", n |-> Len(b) - 1,
               s |-> SubSeq(b, 1, Len(b) - 1)]}

NotCalled == [ok |-> FALSE, err |-> "not called", val |-> <<>>]

CodecIdle ==
    /\ pc = "idle" /\ args = [data |-> <<>>, uuid |-> <<>>, kids |-> <<>>]
    /\ box = <<>> /\ x = <<>> /\ how = [kind |-> "none", n |-> 0]
    /\ parsed = ParseError("not called")
    /\ down = NotCalled /\ down2 = NotCalled

CodecStart ==
    /\ pc = "args"
    /\ args \in [data : Payloads, uuid : Uuids, kids : KidLists]
    /\ box = <<>> /\ x = <<>> /\ how = [kind |-> "none", n |-> 0]
    /\ parsed = ParseError("not called")
    /\ down = NotCalled /\ down2 = NotCalled

\* box = cenc_init(data, uuid, kids)
Encode ==
    /\ pc = "args"
    /\ box' = cenc_init(args.data, args.uuid, args.kids)
    /\ pc' = "encoded"
    /\ UNCHANGED <<args, x, how, parsed, down, down2>>

\* the caller picks the string it will decode
Supply ==
    /\ pc = "encoded"
    /\ \E i \in Inputs(box) :
        /\ x' = i.s
        /\ how' = [kind |-> i.kind, n |-> i.n]
    /\ pc' = "input"
    /\ UNCHANGED <<args, box, parsed, down, down2>>

\* parsed = parse_cenc_init(x)
Parse ==
    /\ pc = "input"
    /\ parsed' = parse_cenc_init(x)
    /\ pc' = "parsed"
    /\ UNCHANGED <<args, box, x, how, down, down2>>

\* down = cenc_version1to0(x)
Downgrade ==
    /\ pc = "parsed"
    /\ down' = cenc_version1to0(x)
    /\ pc' = "down"
    /\ UNCHANGED <<args, box, x, how, parsed, down2>>

\* down2 = cenc_version1to0(cenc_version1to0(x)): the outer call is made
\* with what the inner call returned; an exception of the inner call is the
\* outcome of the whole expression
DowngradeAgain ==
    /\ pc = "down"
    /\ down2' = IF down.ok THEN cenc_version1to0(down.val) ELSE down
    /\ pc' = "down2"
    /\ UNCHANGED <<args, box, x, how, parsed, down>>

CodecNext ==
    \/ Encode /\ UNCHANGED asyncVars
    \/ Supply /\ UNCHANGED asyncVars
    \/ Parse /\ UNCHANGED asyncVars
    \/ Downgrade /\ UNCHANGED asyncVars
    \/ DowngradeAgain /\ UNCHANGED asyncVars

NoValue == [exc |-> FALSE, of |-> 0]
NoOutcome == [kind |-> "none", val |-> <<>>]

AsyncIdle ==
    /\ tasks = <<>> /\ workers = 0 /\ raise_on_error = FALSE
    /\ task_queue = <<>> /\ resp_queue = <<>> /\ threads = 0
    /\ wpc = <<>> /\ wtask = <<>> /\ mpc = "idle" /\ mi = 0
    /\ result = [val |-> NoValue, index |-> 0]
    /\ results = <<>> /\ exception = <<>> /\ joined = 0
    /\ outcome = NoOutcome /\ runs = <<>>

CodecInit == CodecStart /\ AsyncIdle
CodecSpec == CodecInit /\ [][CodecNext]_vars

----------------------------------------------------------------------------
(* Properties of the codec, checked under CodecSpec *)

Called(states) == pc \in states
Buffer == b64decode(box).val
Scheme == IF args.uuid = <<>> THEN WIDEVINE_UUID ELSE args.uuid

\* the unsigned 32-bit integers stored at a byte offset of a buffer
BigEndian(buf, off) ==
    buf[off + 1] * 16777216 + buf[off + 2] * 65536 + buf[off + 3] * 256
        + buf[off + 4]
LittleEndian(buf, off) ==
    buf[off + 4] * 16777216 + buf[off + 3] * 65536 + buf[off + 2] * 256
        + buf[off + 1]

\* C1: parse_cenc_init(cenc_init(p, s, k)) returns scheme_id = s, payload = p,
\* key_ids = k in the original order, and version 1 if k is non-empty, else 0.
RoundTrip ==
    (Called({"parsed", "down", "down2"}) /\ how.kind = "asis")
        => /\ parsed.ok
           /\ parsed.uuid = Scheme
           /\ parsed.data = args.data
           /\ parsed.kids = args.kids
           /\ parsed.version = (IF args.kids = <<>> THEN 0 ELSE 1)

RoundTripWitness ==
    /\ pc = "parsed" /\ how.kind = "asis" /\ parsed.ok
    /\ args.uuid = OtherUuid /\ Len(args.data) = MaxData
    /\ Len(args.kids) = 2 /\ args.kids[1] # args.kids[2]
    /\ parsed.version = 1

\* C2: the big-endian u32 at offset 0 of a box produced by cenc_init equals
\* the buffer's total byte length, 32 + len(payload), plus 4 + 16 * len(key_ids)
\* when key_ids is non-empty.
LengthInvariant ==
    Called({"encoded"})
        => /\ Len(Buffer) = 32 + Len(args.data)
                + (IF args.kids = <<>> THEN 0 ELSE 4 + 16 * Len(args.kids))
           /\ BigEndian(Buffer, 0) = Len(Buffer)

LengthInvariantWitness ==
    /\ pc = "encoded" /\ Len(args.kids) = 2 /\ Len(args.data) = 2
    /\ Len(Buffer) = 70 /\ BigEndian(Buffer, 0) = 70

\* C3: decoding a buffer cut short inside any field, the payload included,
\* fails and never returns a tuple.
TruncationDetected ==
    (Called({"parsed", "down", "down2"}) /\ how.kind = "cut") => ~parsed.ok

\* What the code does detect: a cut anywhere before the end of the
\* payload_length field.
TruncationBeforePayloadDetected ==
    (Called({"parsed", "down", "down2"}) /\ how.kind = "cut"
        /\ how.n < Len(Buffer) - Len(args.data)) => ~parsed.ok

\* ... and a cut inside the payload returns the bytes that are there.
TruncatedPayloadReturned ==
    (Called({"parsed", "down", "down2"}) /\ how.kind = "cut"
        /\ how.n >= Len(Buffer) - Len(args.data))
        => /\ parsed.ok
           /\ parsed.data = SubSeq(args.data, 1,
                                   how.n - (Len(Buffer) - Len(args.data)))

\* C4: cenc_version1to0(x) returns exactly x whenever x decodes to a version
\* other than 1, or to a scheme_id other than the Widevine one, or to an empty
\* payload.
DowngradeNoOp ==
    (Called({"down", "down2"}) /\ parsed.ok
        /\ (parsed.version # 1 \/ parsed.uuid # WIDEVINE_UUID
                \/ Len(parsed.data) = 0))
        => (down.ok /\ down.val = x)

DowngradeNoOpWitness ==
    /\ pc = "down" /\ parsed.ok /\ parsed.version = 1
    /\ parsed.uuid = WIDEVINE_UUID /\ parsed.data = <<>>
    /\ parsed.kids # <<>> /\ down.val = x

\* C5: cenc_version1to0(cenc_version1to0(x)) = cenc_version1to0(x); the output
\* of a real downgrade is a box on which the downgrade is a no-op.
DowngradeIdempotent ==
    Called({"down2"}) => down2 = down

DowngradeIdempotentWitness ==
    /\ pc = "down2" /\ down.ok /\ down.val # x /\ parsed.version = 1
    /\ down2.ok /\ down2.val = down.val

\* C6: when x decodes to version 1, the Widevine scheme_id and a non-empty
\* payload, cenc_version1to0(x) is cenc_init(payload, scheme_id) with no key
\* IDs: it decodes to version 0, no key IDs, the same scheme_id and payload.
DowngradeEffect ==
    (Called({"down", "down2"}) /\ parsed.ok /\ parsed.version = 1
        /\ parsed.uuid = WIDEVINE_UUID /\ parsed.data # <<>>)
        => /\ down.ok
           /\ down.val = cenc_init(parsed.data, parsed.uuid, <<>>)
           /\ LET q == parse_cenc_init(down.val)
              IN  /\ q.ok /\ q.version = 0 /\ q.kids = <<>>
                  /\ q.uuid = parsed.uuid /\ q.data = parsed.data

DowngradeEffectWitness ==
    /\ pc = "down" /\ how.kind = "asis" /\ parsed.version = 1
    /\ Len(parsed.kids) = 2 /\ Len(parsed.data) = 2
    /\ down.ok /\ Len(b64decode(down.val).val) = 34

\* C7: cenc_version1to0 never fails; on an input that cannot be decoded as a
\* complete box it returns the input unchanged.
DowngradeNeverFails ==
    Called({"down", "down2"})
        => /\ down.ok
           /\ ~parsed.ok => down.val = x

\* What the code does: the call fails exactly when parse_cenc_init fails.
DowngradeFailsWithParse ==
    Called({"down", "down2"})
        => /\ down.ok = parsed.ok
           /\ ~parsed.ok => down.err = parsed.err

\* C8: the buffer is declared_length (u32 BE, offset 0), the box-type tag
\* (offset 4), version (u32 LE, offset 8; 1 iff N > 0), s (offset 12), then
\* only when N > 0 the count N (u32 BE, offset 28) and the key IDs in input
\* order (offset 32), then len(p) (u32 BE, offset 28 or 32 + 16N), then p as
\* the final bytes.
WireLayout ==
    Called({"encoded"})
        => LET buf  == Buffer
               N    == Len(args.kids)
               base == IF N > 0 THEN 32 + 16 * N ELSE 28
           IN  /\ Len(buf) = base + 4 + Len(args.data)
               /\ BigEndian(buf, 0) = Len(buf)
               /\ SubSeq(buf, 5, 8) = WIDEVINE_PSSH
               /\ LittleEndian(buf, 8) = (IF N > 0 THEN 1 ELSE 0)
               /\ SubSeq(buf, 13, 28) = Scheme
               /\ N > 0 => /\ BigEndian(buf, 28) = N
                           /\ \A k \in 1..N :
                                SubSeq(buf, 17 + 16 * k, 32 + 16 * k)
                                    = args.kids[k]
               /\ BigEndian(buf, base) = Len(args.data)
               /\ SubSeq(buf, base + 5, Len(buf)) = args.data

WireLayoutWitness ==
    /\ pc = "encoded" /\ args.uuid = ZeroUuid /\ args.data = <<1, 2>>
    /\ Len(args.kids) = 2 /\ args.kids[1] # args.kids[2]
    /\ Len(Buffer) = 70 /\ Buffer[9] = 1 /\ Buffer[32] = 2
    /\ SubSeq(Buffer, 69, 70) = <<1, 2>>

----------------------------------------------------------------------------
(* async_tasks *)

\* What calling tasks[i] does: return a plain value, return an object that
\* is an Exception instance, or raise an Exception.
TaskKinds == {"value", "exc_value", "raises"}

\* The object task i hands back, returned or raised; exc is what
\* isinstance(v, Exception) answers.
TaskValue(kind, i) == [exc |-> kind # "value", of |-> i]

\* num_workers = min(workers, len(tasks))
num_workers == Min(workers, Len(tasks))

Terminated(t) == wpc[t] \in {"exit", "died"}

\* where the calling thread goes next: the thread-starting loop, the
\* collecting loop (left by exhaustion or by break), the joins
MainPhase(started, i, exc) ==
    IF started < num_workers THEN "start"
    ELSE IF i < Len(tasks) /\ exc = <<>> THEN "collect"
    ELSE "join"

AsyncStart ==
    /\ tasks \in SeqsUpTo(TaskKinds, MaxTasks)
    /\ workers \in 0..MaxWorkers
    /\ raise_on_error \in BOOLEAN
    /\ task_queue = <<>> /\ resp_queue = <<>> /\ threads = 0
    /\ wpc = [t \in 1..num_workers |-> "unstarted"]
    /\ wtask = [t \in 1..num_workers |-> [val |-> NoValue, index |-> 0]]
    /\ mpc = "put" /\ mi = 0
    /\ result = [val |-> NoValue, index |-> 0]
    /\ results = <<>> /\ exception = <<>> /\ joined = 0
    /\ outcome = NoOutcome
    /\ runs = [i \in 1..Len(tasks) |-> 0]

\* for i in range(len(tasks)): task_queue.put([tasks[i], i])
PutTasks ==
    /\ mpc = "put"
    /\ task_queue' = [i \in 1..Len(tasks) |-> i]
    /\ mpc' = MainPhase(0, 0, <<>>)
    /\ UNCHANGED <<tasks, workers, raise_on_error, resp_queue, threads, wpc,
                   wtask, mi, result, results, exception, joined, outcome,
                   runs>>

\* thread = threading.Thread(target=worker); thread.start()
StartThread ==
    /\ mpc = "start"
    /\ threads' = threads + 1
    /\ wpc' = [wpc EXCEPT ![threads + 1] = "while"]
    /\ mpc' = MainPhase(threads + 1, 0, <<>>)
    /\ UNCHANGED <<tasks, workers, raise_on_error, task_queue, resp_queue,
                   wtask, mi, result, results, exception, joined, outcome,
                   runs>>

\* result = resp_queue.get() (blocks while the queue is empty), then
\* results.append(result) unless the raise_on_error test sends it to the clear
Collect ==
    /\ mpc = "collect"
    /\ resp_queue # <<>>
    /\ result' = Head(resp_queue)
    /\ resp_queue' = Tail(resp_queue)
    /\ IF raise_on_error /\ Head(resp_queue).val.exc
       THEN /\ mpc' = "clear"
            /\ UNCHANGED <<results, mi>>
       ELSE /\ results' = Append(results, Head(resp_queue))
            /\ mi' = mi + 1
            /\ mpc' = MainPhase(threads, mi + 1, <<>>)
    /\ UNCHANGED <<tasks, workers, raise_on_error, task_queue, threads, wpc,
                   wtask, exception, joined, outcome, runs>>

\* with task_queue.mutex: task_queue.queue.clear(); exception = result[0]; break
ClearQueue ==
    /\ mpc = "clear"
    /\ task_queue' = <<>>
    /\ exception' = <<result.val>>
    /\ mpc' = MainPhase(threads, mi, <<result.val>>)
    /\ UNCHANGED <<tasks, workers, raise_on_error, resp_queue, threads, wpc,
                   wtask, mi, result, results, joined, outcome, runs>>

\* thread.join(): returns once that thread has ended
Join ==
    /\ mpc = "join"
    /\ joined < threads
    /\ Terminated(joined + 1)
    /\ joined' = joined + 1
    /\ UNCHANGED <<tasks, workers, raise_on_error, task_queue, resp_queue,
                   threads, wpc, wtask, mpc, mi, result, results, exception,
                   outcome, runs>>

\* sorted(results, key=lambda x: x[1]): insertion by index, stable
RECURSIVE SortedByIndex(_)
SortedByIndex(rs) ==
    IF rs = <<>> THEN <<>>
    ELSE LET last == rs[Len(rs)]
             init == SortedByIndex(SubSeq(rs, 1, Len(rs) - 1))
             IsLE(r) == r.index <= last.index
             IsGT(r) == r.index > last.index
         IN  SelectSeq(init, IsLE) \o <<last>> \o SelectSeq(init, IsGT)

\* if exception: raise exception
\* return [x[0] for x in sorted(results, key=lambda x: x[1])]
Return ==
    /\ mpc = "join"
    /\ joined = threads
    /\ IF exception # <<>>
       THEN /\ outcome' = [kind |-> "raised", val |-> exception]
            /\ mpc' = "raised"
       ELSE /\ outcome' =
                [kind |-> "returned",
                 val |-> [k \in 1..Len(results) |->
                            SortedByIndex(results)[k].val]]
            /\ mpc' = "returned"
    /\ UNCHANGED <<tasks, workers, raise_on_error, task_queue, resp_queue,
                   threads, wpc, wtask, mi, result, results, exception,
                   joined, runs>>

\* while not task_queue.empty():
WhileTest(t) ==
    /\ wpc[t] = "while"
    /\ wpc' = [wpc EXCEPT ![t] = IF task_queue = <<>> THEN "exit" ELSE "get"]
    /\ UNCHANGED <<tasks, workers, raise_on_error, task_queue, resp_queue,
                   threads, wtask, mpc, mi, result, results, exception,
                   joined, outcome, runs>>

\* a worker that waits for a task: task_queue.get()
GetBlocking(t) ==
    /\ wpc[t] = "get"
    /\ task_queue # <<>>
    /\ wtask' = [wtask EXCEPT ![t] = [val |-> NoValue,
                                      index |-> Head(task_queue)]]
    /\ task_queue' = Tail(task_queue)
    /\ wpc' = [wpc EXCEPT ![t] = "call"]
    /\ UNCHANGED <<tasks, workers, raise_on_error, resp_queue, threads, mpc,
                   mi, result, results, exception, joined, outcome, runs>>

\* task, index = task_queue.get_nowait(): queue.Empty, raised outside the
\* try, ends the thread
Get(t) ==
    /\ wpc[t] = "get"
    /\ IF task_queue = <<>>
       THEN /\ wpc' = [wpc EXCEPT ![t] = "died"]
            /\ UNCHANGED <<wtask, task_queue>>
       ELSE /\ wtask' = [wtask EXCEPT ![t] = [val |-> NoValue,
                                             index |-> Head(task_queue)]]
            /\ task_queue' = Tail(task_queue)
            /\ wpc' = [wpc EXCEPT ![t] = "call"]
    /\ UNCHANGED <<tasks, workers, raise_on_error, resp_queue, threads, mpc,
                   mi, result, results, exception, joined, outcome, runs>>

\* task(): returns, or raises an Exception that the except clause catches
Call(t) ==
    /\ wpc[t] = "call"
    /\ runs' = [runs EXCEPT ![wtask[t].index] = @ + 1]
    /\ wtask' = [wtask EXCEPT ![t].val =
                    TaskValue(tasks[wtask[t].index], wtask[t].index)]
    /\ wpc' = [wpc EXCEPT ![t] = "respond"]
    /\ UNCHANGED <<tasks, workers, raise_on_error, task_queue, resp_queue,
                   threads, mpc, mi, result, results, exception, joined,
                   outcome>>

\* resp_queue.put([task(), index]) or resp_queue.put([e, index]), and the
\* finally clause's task_queue.task_done()
Respond(t) ==
    /\ wpc[t] = "respond"
    /\ resp_queue' = Append(resp_queue, wtask[t])
    /\ wpc' = [wpc EXCEPT ![t] = "while"]
    /\ UNCHANGED <<tasks, workers, raise_on_error, task_queue, threads,
                   wtask, mpc, mi, result, results, exception, joined,
                   outcome, runs>>

Worker(t) ==
    (WhileTest(t) \/ Get(t) \/ Call(t) \/ Respond(t)) /\ UNCHANGED codecVars

Main ==
    (PutTasks \/ StartThread \/ Collect \/ ClearQueue \/ Join \/ Return)
        /\ UNCHANGED codecVars

AsyncNext ==
    \/ PutTasks /\ UNCHANGED codecVars
    \/ StartThread /\ UNCHANGED codecVars
    \/ Collect /\ UNCHANGED codecVars
    \/ ClearQueue /\ UNCHANGED codecVars
    \/ Join /\ UNCHANGED codecVars
    \/ Return /\ UNCHANGED codecVars
    \/ \E t \in 1..threads : WhileTest(t) /\ UNCHANGED codecVars
    \/ \E t \in 1..threads : Get(t) /\ UNCHANGED codecVars
    \/ \E t \in 1..threads : Call(t) /\ UNCHANGED codecVars
    \/ \E t \in 1..threads : Respond(t) /\ UNCHANGED codecVars

AsyncInit == CodecIdle /\ AsyncStart
AsyncSpec == AsyncInit /\ [][AsyncNext]_vars

\* Every thread that can take a step eventually takes one (the operating
\* system's scheduler), and every task called comes back.
AsyncFairSpec ==
    /\ AsyncInit /\ [][AsyncNext]_vars
    /\ WF_vars(Main)
    /\ \A t \in 1..MaxWorkers : WF_vars(t <= threads /\ Worker(t))

----------------------------------------------------------------------------
(* Properties of async_tasks, checked under AsyncSpec and AsyncFairSpec *)

Finished == mpc \in {"returned", "raised"}

InOrder ==
    /\ outcome.kind = "returned"
    /\ outcome.val = [i \in 1..Len(tasks) |-> TaskValue(tasks[i], i)]
    /\ \A i \in 1..Len(tasks) : runs[i] = 1

\* C9: when no task raises (or raise_on_error is False) and workers >= 1,
\* async_tasks returns len(tasks) entries, the i-th being what tasks[i]
\* returned (or the exception caught from it), each task run exactly once,
\* whichever worker ran it and in whatever order the tasks completed.
ResultOrdering ==
    (Finished /\ workers >= 1
        /\ (~raise_on_error \/ \A i \in 1..Len(tasks) : tasks[i] # "raises"))
        => InOrder

\* What the code does: the same, provided that under raise_on_error no task
\* hands back an Exception instance either way, raised or returned.
ResultOrderingOfPlainValues ==
    (Finished /\ workers >= 1
        /\ (~raise_on_error \/ \A i \in 1..Len(tasks) : tasks[i] = "value"))
        => InOrder

\* Results arrive out of order and are put back in order.
OutOfOrderArrival ==
    /\ mpc = "returned" /\ Len(results) = 2
    /\ results[1].index = 2 /\ results[2].index = 1

\* C10: for a non-empty task list and workers >= 1, async_tasks eventually
\* returns or raises under every interleaving, in both raise_on_error modes,
\* also when a worker finds the queue emptied between empty() and
\* get_nowait(); when it finishes every worker thread has ended and no task
\* is started afterwards.
AsyncTerminates ==
    /\ (workers >= 1 /\ tasks # <<>>) => <>Finished
    /\ [](Finished => /\ threads = num_workers
                      /\ \A t \in 1..threads : Terminated(t))
    /\ [][Finished => runs' = runs]_vars

\* a worker lost the race for the last task, or for a queue the collector
\* cleared, and async_tasks still finished
AsyncTerminatesWitness ==
    /\ mpc = "raised" /\ raise_on_error /\ Len(tasks) = 2
    /\ \E t \in 1..threads : wpc[t] = "died"
    /\ \E i \in 1..Len(tasks) : runs[i] = 0

====
